---------------------------- MODULE Spec2Model ----------------------------
(* A model of rattler.py: the wire codec (unpack_wrapper,                  *)
(* unpack_measurement), the receiver's clock anchor and backward-drop      *)
(* filter (SeismometerReceiver.compensate_time / receive), the generator   *)
(* measurements() and the arithmetic of Measurement.                       *)
(*                                                                         *)
(* Representation.                                                         *)
(*   - A datagram is a sequence of bytes (0..255).                         *)
(*   - A Python float is a fixed-point integer: the number of              *)
(*     2^-FracBits seconds. Every input of the model is a multiple of a    *)
(*     quarter second, so the decoding and the arithmetic are exact.       *)
(*   - A datetime is an integer number of microseconds.                    *)
(*   - A 64-bit axis reading is the sequence of its 8 IEEE-754 bytes on    *)
(*     the receive path, where the code does no arithmetic on it, and a    *)
(*     fixed-point float in the arithmetic of Measurement.                 *)
(*   - Python's None is the empty sequence; a set optional value v is      *)
(*     <<v>> (for _first the stored tuple itself).                         *)
EXTENDS Integers, Sequences, FiniteSets, TLC

VARIABLES
    _first,            \* SeismometerReceiver._first: <<>> or <<base_dt, base_ts>>
    _prev_dt,          \* SeismometerReceiver._prev_dt: <<>> or <<datetime>>
    drop_on_backward,  \* SeismometerReceiver.drop_on_backward
    now,               \* the wall clock read by datetime.datetime.now()
    data,              \* the datagram of the last receive() call
    addr,              \* the peer address of the last receive() call
    ret,               \* the outcome of the last receive() call
    calls,             \* the number of receive() calls so far
    last_ts,           \* <<>> or <<relative time of the last measurement
                       \*   that reached compensate_time>>
    increasing,        \* every call so far decoded a measurement, with
                       \*   drop_on_backward enabled, whose relative time
                       \*   is greater than that of the call before it
    old_prev_dt,       \* _prev_dt before the last receive() call
    max_ret,           \* <<>> or <<the greatest timestamp of the
                       \*   Measurements returned so far>>
    ever_off,          \* drop_on_backward has been disabled at some time
    gen,               \* the generator measurements(): "none" (not
                       \*   created), "suspended", "running", "finished"
    pulled,            \* the outcome of the last next() on the generator
    pull_calls,        \* receive() calls made by the last next()
    heap,              \* the Measurement objects of the display code: the
                       \*   object with identity i is heap[i]
    res                \* the last operation on them and its outcome

\* the receiver's fields, the last call and the record of the calls
callVars ==
    <<_first, _prev_dt, data, addr, ret, calls, last_ts, increasing,
      old_prev_dt, max_ret>>

genVars == <<gen, pulled, pull_calls>>

sampleVars == <<heap, res>>

\* everything but the Measurement objects of the display code
receiverVars == <<callVars, drop_on_backward, ever_off, now, genVars>>

vars == <<receiverVars, sampleVars>>

---------------------------------------------------------------------------
(* Bounds of the model *)

\* receive() calls in one behaviour
MaxCalls == 3
\* wall-clock ticks in one behaviour
MaxTicks == 2
\* the wall clock's advance per tick, in microseconds
ClockStep == 700000
\* fractional bits of the fixed-point representation of a float
FracBits == 6
\* Measurement objects in one behaviour of the arithmetic
MaxSamples == 4

---------------------------------------------------------------------------
(* Program constants *)

msgtype_announce == 1
msgtype_measurement == 2
\* struct.calcsize("! HH")
wrapper_size == 4
\* struct.calcsize("! f 3d")
measurement_size == 28

NoneVal == <<>>

---------------------------------------------------------------------------
(* Arithmetic helpers *)

RECURSIVE Pow2(_)
Pow2(n) == IF n = 0 THEN 1 ELSE 2 * Pow2(n - 1)

\* 1.0 in the fixed-point representation
FloatOne == Pow2(FracBits)

\* int(diff): Python's int() of a float truncates toward zero
int(diff) ==
    IF diff >= 0 THEN diff \div FloatOne ELSE -((-diff) \div FloatOne)

\* diff % 1: Python's float modulo takes the sign of the divisor, so the
\* result is in [0, 1)
mod1(diff) == diff % FloatOne

\* timedelta(microseconds=f) for a float f = frac * 10**6: rounded to the
\* nearest microsecond, ties to even
RoundToMicros(frac) ==
    LET n == frac * 1000000
        q == n \div FloatOne
        r == n % FloatOne
    IN  IF 2 * r > FloatOne THEN q + 1
        ELSE IF 2 * r < FloatOne THEN q
        ELSE IF q % 2 = 0 THEN q ELSE q + 1

---------------------------------------------------------------------------
(* struct *)

\* data[:n]
Take(s, n) == SubSeq(s, 1, IF n < Len(s) THEN n ELSE Len(s))
\* data[n:]
Drop(s, n) == SubSeq(s, n + 1, Len(s))

\* "!H": an unsigned 16-bit integer, big-endian
U16(b) == b[1] * 256 + b[2]

\* "!f": an IEEE-754 binary32, big-endian, as a fixed-point float.
\* sign 1 bit, exponent 8 bits, fraction 23 bits.
F32(b) ==
    LET sign == b[1] \div 128
        e == (b[1] % 128) * 2 + (b[2] \div 128)
        f == (b[2] % 128) * 65536 + b[3] * 256 + b[4]
        m == IF e = 0 THEN f ELSE 8388608 + f
        \* value = m * 2^(ee - 150), ee = 1 for a subnormal
        ee == IF e = 0 THEN 1 ELSE e
        shift == ee - 150 + FracBits
        mag == IF shift >= 0 THEN m * Pow2(shift)
               ELSE IF -shift > 24 THEN 0
               ELSE m \div Pow2(-shift)
    IN  IF sign = 1 THEN -mag ELSE mag

\* StructFormat.unpack_split: part, rest = data[:size], data[size:];
\* struct.unpack raises struct.error unless len(part) = size
unpack_split(size, d) ==
    LET part == Take(d, size)
        rest == Drop(d, size)
    IN  IF Len(part) # size
        THEN [kind |-> "struct.error"]
        ELSE [kind |-> "ok", part |-> part, rest |-> rest]

---------------------------------------------------------------------------
(* Exceptions and values *)

\* PartialData.__init__(self, num_got, num_want, data)
PartialData(num_got, num_want, d) ==
    [kind |-> "PartialData", num_got |-> num_got, num_want |-> num_want,
     data |-> d]

\* Measurement.__init__(self, timestamp, x, y, z, source)
Measurement(timestamp, x, y, z, source) ==
    [kind |-> "Measurement", timestamp |-> timestamp,
     x |-> x, y |-> y, z |-> z, source |-> source]

\* a function that returns without a value
ReturnNone == [kind |-> "None"]

---------------------------------------------------------------------------
(* Wire codec *)

unpack_wrapper(msg) ==
    LET u == unpack_split(wrapper_size, msg) IN
    IF u.kind # "ok" THEN u
    ELSE LET typ == U16(SubSeq(u.part, 1, 2))
             sz == U16(SubSeq(u.part, 3, 4))
         IN  IF Len(msg) # sz
             THEN PartialData(sz, Len(u.rest), msg)
             ELSE [kind |-> "ok", typ |-> typ, rest |-> u.rest]

unpack_measurement(msg) ==
    LET u == unpack_split(measurement_size, msg) IN
    IF u.kind # "ok" THEN u
    ELSE IF u.rest # <<>> THEN [kind |-> "ValueError"]
    ELSE [kind |-> "ok",
          reltime |-> F32(SubSeq(u.part, 1, 4)),
          x |-> SubSeq(u.part, 5, 12),
          y |-> SubSeq(u.part, 13, 20),
          z |-> SubSeq(u.part, 21, 28)]

---------------------------------------------------------------------------
(* Receiver *)

\* compensate_time with the anchor taken anew on every call
compensate_time_reanchor(first, clock, ts) ==
    [first |-> <<clock, ts>>, dt |-> clock]

\* compensate_time offsetting from the current wall clock instead of the
\* anchor's
compensate_time_from_now(first, clock, ts) ==
    LET anchor == IF first = NoneVal THEN <<clock, ts>> ELSE first
        diff == ts - anchor[2]
    IN  [first |-> anchor,
         dt |-> clock + int(diff) * 1000000 + RoundToMicros(mod1(diff))]

\* SeismometerReceiver.compensate_time: the new _first and the datetime
compensate_time(first, clock, ts) ==
    LET anchor == IF first = NoneVal THEN <<clock, ts>> ELSE first
        base_dt == anchor[1]
        base_ts == anchor[2]
        diff == ts - base_ts
        secs == int(diff)
        msecs == RoundToMicros(mod1(diff))
    IN  [first |-> anchor, dt |-> base_dt + secs * 1000000 + msecs]

\* the filter with _prev_dt advanced by a dropped measurement too
backward_filter_drop_updates(prev_dt, dob, dt) ==
    IF dob
    THEN [drop |-> prev_dt # NoneVal /\ dt < prev_dt[1], prev_dt |-> <<dt>>]
    ELSE [drop |-> FALSE, prev_dt |-> prev_dt]

\* the filter with the comparison reversed
backward_filter_reversed(prev_dt, dob, dt) ==
    IF dob
    THEN IF prev_dt # NoneVal /\ dt > prev_dt[1]
         THEN [drop |-> TRUE, prev_dt |-> prev_dt]
         ELSE [drop |-> FALSE, prev_dt |-> <<dt>>]
    ELSE [drop |-> FALSE, prev_dt |-> prev_dt]

\* the filter applied whatever drop_on_backward is
backward_filter_always(prev_dt, dob, dt) ==
    IF prev_dt # NoneVal /\ dt < prev_dt[1]
    THEN [drop |-> TRUE, prev_dt |-> prev_dt]
    ELSE [drop |-> FALSE, prev_dt |-> <<dt>>]

\* the filter dropping a measurement as old as the last accepted one too
backward_filter_le(prev_dt, dob, dt) ==
    IF dob
    THEN IF prev_dt # NoneVal /\ dt <= prev_dt[1]
         THEN [drop |-> TRUE, prev_dt |-> prev_dt]
         ELSE [drop |-> FALSE, prev_dt |-> <<dt>>]
    ELSE [drop |-> FALSE, prev_dt |-> prev_dt]

\* the filter never recording the accepted timestamp
backward_filter_no_update(prev_dt, dob, dt) ==
    [drop |-> dob /\ prev_dt # NoneVal /\ dt < prev_dt[1],
     prev_dt |-> prev_dt]

\* The backward-drop filter of receive (if self.drop_on_backward: ...):
\* whether the call returns without a value, and the new _prev_dt
backward_filter(prev_dt, dob, dt) ==
    IF dob
    THEN IF prev_dt # NoneVal /\ dt < prev_dt[1]
         THEN [drop |-> TRUE, prev_dt |-> prev_dt]
         ELSE [drop |-> FALSE, prev_dt |-> <<dt>>]
    ELSE [drop |-> FALSE, prev_dt |-> prev_dt]

\* receive with an Announce taken as the start of a new session: the
\* anchor and the ordering state are reset before the exception
receive_announce_resets(first, prev_dt, dob, clock, d, a) ==
    LET same(r) == [ret |-> r, first |-> first, prev_dt |-> prev_dt]
        w == unpack_wrapper(d)
    IN  IF w.kind # "ok" THEN same(w)
        ELSE IF w.typ = msgtype_announce
        THEN [ret |-> [kind |-> "NotImplementedError"],
              first |-> NoneVal, prev_dt |-> NoneVal]
        ELSE IF w.typ = msgtype_measurement
        THEN LET m == unpack_measurement(w.rest) IN
             IF m.kind # "ok" THEN same(m)
             ELSE LET c == compensate_time(first, clock, m.reltime)
                      f == backward_filter(prev_dt, dob, c.dt)
                  IN  [ret |-> IF f.drop THEN ReturnNone
                               ELSE Measurement(c.dt, m.x, m.y, m.z, a),
                       first |-> c.first,
                       prev_dt |-> f.prev_dt]
        ELSE same(ReturnNone)

\* receive with the timestamp compensated as soon as the fixed-width
\* fields are read, before the surplus bytes are looked at
receive_anchor_before_check(first, prev_dt, dob, clock, d, a) ==
    LET same(r) == [ret |-> r, first |-> first, prev_dt |-> prev_dt]
        w == unpack_wrapper(d)
    IN  IF w.kind # "ok" THEN same(w)
        ELSE IF w.typ = msgtype_announce
        THEN same([kind |-> "NotImplementedError"])
        ELSE IF w.typ = msgtype_measurement
        THEN LET m == unpack_measurement(w.rest) IN
             IF m.kind = "struct.error" THEN same(m)
             ELSE LET c == compensate_time(first, clock,
                                           F32(SubSeq(w.rest, 1, 4)))
                      f == backward_filter(prev_dt, dob, c.dt)
                  IN  IF m.kind # "ok"
                      THEN [ret |-> m, first |-> c.first,
                            prev_dt |-> prev_dt]
                      ELSE [ret |-> IF f.drop THEN ReturnNone
                                    ELSE Measurement(c.dt, m.x, m.y, m.z, a),
                            first |-> c.first,
                            prev_dt |-> f.prev_dt]
        ELSE same(ReturnNone)

\* SeismometerReceiver.receive on the datagram d from peer a: the outcome
\* and the receiver's fields after the call
receive(first, prev_dt, dob, clock, d, a) ==
    LET same(r) == [ret |-> r, first |-> first, prev_dt |-> prev_dt]
        w == unpack_wrapper(d)
    IN  IF w.kind # "ok" THEN same(w)
        ELSE IF w.typ = msgtype_announce
        THEN same([kind |-> "NotImplementedError"])
        ELSE IF w.typ = msgtype_measurement
        THEN LET m == unpack_measurement(w.rest) IN
             IF m.kind # "ok" THEN same(m)
             ELSE LET c == compensate_time(first, clock, m.reltime)
                      f == backward_filter(prev_dt, dob, c.dt)
                  IN  [ret |-> IF f.drop THEN ReturnNone
                               ELSE Measurement(c.dt, m.x, m.y, m.z, a),
                       first |-> c.first,
                       prev_dt |-> f.prev_dt]
        ELSE same(ReturnNone)

---------------------------------------------------------------------------
(* Measurement arithmetic. The objects live in a heap h, a sequence: the  *)
(* object with identity i is h[i]. The axis readings of these objects are  *)
(* fixed-point floats. Every operation gives the heap after it and what it *)
(* returns: <<i>> for the object i, or the name of what it returns or      *)
(* raises instead.                                                         *)

\* an operand: a Measurement object or a number
Obj(i) == [kind |-> "Measurement", id |-> i]
Num(n) == [kind |-> "int", n |-> n]

\* hasattrs(obj, ("x", "y", "z"))
hasattrs(o) == o.kind = "Measurement"

\* clone that leaves out source=self.source: the copy gets the default
clone_no_source(h, self, x, y, z) ==
    [heap |-> Append(h, Measurement(h[self].timestamp, x, y, z, NoneVal)),
     out |-> <<Len(h) + 1>>]

\* Measurement.clone: type(self)(self.timestamp, x, y, z, source=self.source)
clone(h, self, x, y, z) ==
    [heap |-> Append(h, Measurement(h[self].timestamp, x, y, z,
                                    h[self].source)),
     out |-> <<Len(h) + 1>>]

\* what an operation gives when it makes no object
NoObject(h, what) == [heap |-> h, out |-> what]

\* x / n for a float x and a non-zero number n
FloatDiv(x, n) ==
    LET q == (IF x >= 0 THEN x ELSE -x) \div (IF n >= 0 THEN n ELSE -n)
    IN  IF (x >= 0) = (n >= 0) THEN q ELSE -q

\* abs(x)
Abs(x) == IF x >= 0 THEN x ELSE -x

__add__(h, self, o) ==
    IF ~hasattrs(o) THEN NoObject(h, "NotImplemented")
    ELSE clone(h, self, h[self].x + h[o.id].x, h[self].y + h[o.id].y,
               h[self].z + h[o.id].z)

__sub__(h, self, o) ==
    IF ~hasattrs(o) THEN NoObject(h, "NotImplemented")
    ELSE clone(h, self, h[self].x - h[o.id].x, h[self].y - h[o.id].y,
               h[self].z - h[o.id].z)

__mul__(h, self, n) ==
    clone(h, self, h[self].x * n, h[self].y * n, h[self].z * n)

__div__(h, self, n) ==
    IF n = 0 THEN NoObject(h, "ZeroDivisionError")
    ELSE clone(h, self, FloatDiv(h[self].x, n), FloatDiv(h[self].y, n),
               FloatDiv(h[self].z, n))

__neg__(h, self) == clone(h, self, -h[self].x, -h[self].y, -h[self].z)

__pos__(h, self) == clone(h, self, h[self].x, h[self].y, h[self].z)

__abs__(h, self) ==
    clone(h, self, Abs(h[self].x), Abs(h[self].y), Abs(h[self].z))

\* ~ of a float raises TypeError
__invert__(h, self) == NoObject(h, "TypeError")

---------------------------------------------------------------------------
(* The environment: what sock.recvfrom can deliver *)

Header(typ, sz) == <<typ \div 256, typ % 256, sz \div 256, sz % 256>>

\* binary32 encodings of 0.5, 1.5, 1.75, 6.5
SensorTimes ==
    { <<63, 0, 0, 0>>, <<63, 192, 0, 0>>, <<63, 224, 0, 0>>,
      <<64, 208, 0, 0>> }

\* binary64 encodings of 0.01, 0.02, -0.98
AxisX == <<63, 132, 122, 225, 71, 174, 20, 123>>
AxisY == <<63, 148, 122, 225, 71, 174, 20, 123>>
AxisZ == <<191, 239, 92, 40, 245, 194, 143, 92>>

Body(t) == t \o AxisX \o AxisY \o AxisZ

Datagrams ==
    \* a 28-byte measurement body, the header declaring the datagram's
    \* length (32)
    { Header(msgtype_measurement, 32) \o Body(t) : t \in SensorTimes }
    \cup
    \* the same, the header declaring the body's length (28)
    { Header(msgtype_measurement, 28) \o Body(<<63, 0, 0, 0>>) }
    \cup
    \* a body cut to 20 bytes, declared 28 or 24
    { Header(msgtype_measurement, sz) \o Take(Body(<<63, 192, 0, 0>>), 20) :
        sz \in {28, 24} }
    \cup
    \* a body with two surplus bytes, the header declaring the datagram's
    \* length (34)
    { Header(msgtype_measurement, 34) \o Body(<<63, 192, 0, 0>>) \o <<0, 0>> }
    \cup
    \* an Announce and a message of an unknown type
    { Header(typ, 32) \o Body(<<63, 192, 0, 0>>) : typ \in {msgtype_announce, 3} }
    \cup
    \* a datagram shorter than the wrapper
    { <<0, 2>> }

Peers == { "192.0.2.1", "192.0.2.2" }

---------------------------------------------------------------------------
(* The state machine *)

\* a receiver as __init__ leaves it, no generator made
InitReceiver ==
    /\ _first = NoneVal
    /\ _prev_dt = NoneVal
    /\ drop_on_backward = TRUE
    /\ now = 0
    /\ data = <<>>
    /\ addr = ""
    /\ ret = [kind |-> "start"]
    /\ calls = 0
    /\ last_ts = NoneVal
    /\ increasing = TRUE
    /\ old_prev_dt = NoneVal
    /\ max_ret = NoneVal
    /\ ever_off = FALSE
    /\ gen = "none"
    /\ pulled = [kind |-> "start"]
    /\ pull_calls = 0

Init ==
    /\ InitReceiver
    /\ heap = <<>>
    /\ res = [op |-> "start"]

\* The relative time of the measurement in datagram d, <<>> when receive
\* does not get as far as compensate_time on d
RelTime(d) ==
    LET w == unpack_wrapper(d) IN
    IF w.kind = "ok" /\ w.typ = msgtype_measurement
    THEN LET m == unpack_measurement(w.rest) IN
         IF m.kind = "ok" THEN <<m.reltime>> ELSE NoneVal
    ELSE NoneVal

\* One call of sr.receive() that reads datagram d from peer a, with the
\* outcome r of receive
ReceiveCall(d, a, r) ==
    /\ _first' = r.first
    /\ _prev_dt' = r.prev_dt
    /\ data' = d
    /\ addr' = a
    /\ ret' = r.ret
    /\ calls' = calls + 1
    /\ last_ts' = IF RelTime(d) # NoneVal THEN RelTime(d) ELSE last_ts
    /\ increasing' =
         /\ increasing
         /\ drop_on_backward
         /\ RelTime(d) # NoneVal
         /\ last_ts # NoneVal => RelTime(d)[1] > last_ts[1]
    /\ old_prev_dt' = _prev_dt
    /\ max_ret' =
         IF r.ret.kind = "Measurement"
            /\ (max_ret = NoneVal \/ r.ret.timestamp > max_ret[1])
         THEN <<r.ret.timestamp>> ELSE max_ret

\* sr.receive(), called on a receiver by its owner
Receive ==
    /\ gen = "none"
    /\ calls < MaxCalls
    /\ \E d \in Datagrams, a \in Peers :
         ReceiveCall(d, a,
                     receive(_first, _prev_dt, drop_on_backward, now, d, a))
    /\ UNCHANGED <<drop_on_backward, ever_off, now, genVars, sampleVars>>

\* drop_on_backward = b (the attribute of the class or of the receiver)
SetDropOnBackward ==
    /\ \E b \in BOOLEAN :
         /\ b # drop_on_backward
         /\ drop_on_backward' = b
         /\ ever_off' = (ever_off \/ ~b)
    /\ UNCHANGED <<callVars, now, genVars, sampleVars>>

\* time passes
Tick ==
    /\ now < MaxTicks * ClockStep
    /\ now' = now + ClockStep
    /\ UNCHANGED <<callVars, drop_on_backward, ever_off, genVars, sampleVars>>

\* the loop without its test for None: whatever receive returns is yielded
measurements_step_yield_none(r) ==
    IF r.kind \notin {"Measurement", "None"}
    THEN [gen |-> "finished", out |-> <<r>>]
    ELSE [gen |-> "suspended", out |-> <<r>>]

\* One turn of the loop of measurements() on the outcome r of sr.receive():
\* an exception leaves the generator, which is then finished; None goes
\* round the loop; a Measurement is yielded
measurements_step(r) ==
    IF r.kind \notin {"Measurement", "None"}
    THEN [gen |-> "finished", out |-> <<r>>]
    ELSE IF r.kind = "None"
    THEN [gen |-> "running", out |-> <<>>]
    ELSE [gen |-> "suspended", out |-> <<r>>]

\* g = measurements(): the generator is created; its receiver is made by
\* the first next()
Measurements ==
    /\ gen = "none"
    /\ calls = 0
    /\ gen' = "suspended"
    /\ UNCHANGED <<callVars, drop_on_backward, ever_off, now, pulled,
                   pull_calls, sampleVars>>

\* next(g) on a suspended generator: the body runs up to sr.receive()
GenNext ==
    /\ gen = "suspended"
    /\ gen' = "running"
    /\ pulled' = [kind |-> "pending"]
    /\ pull_calls' = 0
    /\ UNCHANGED <<callVars, drop_on_backward, ever_off, now, sampleVars>>

\* next(g) on a finished generator raises StopIteration
GenNextFinished ==
    /\ gen = "finished"
    /\ pulled' = [kind |-> "StopIteration"]
    /\ UNCHANGED <<callVars, drop_on_backward, ever_off, now, gen,
                   pull_calls, sampleVars>>

\* the running generator's sr.receive() gets a datagram
GenReceive ==
    /\ gen = "running"
    /\ calls < MaxCalls
    /\ \E d \in Datagrams, a \in Peers :
         LET r == receive(_first, _prev_dt, drop_on_backward, now, d, a)
             g == measurements_step(r.ret)
         IN  /\ ReceiveCall(d, a, r)
             /\ gen' = g.gen
             /\ pulled' = IF g.out = <<>> THEN pulled ELSE g.out[1]
    /\ pull_calls' = pull_calls + 1
    /\ UNCHANGED <<drop_on_backward, ever_off, now, sampleVars>>

Next ==
    \/ Receive
    \/ SetDropOnBackward
    \/ Tick
    \/ Measurements
    \/ GenNext
    \/ GenNextFinished
    \/ GenReceive

Spec == Init /\ [][Next]_vars

---------------------------------------------------------------------------
(* The arithmetic of the display code on Measurement objects *)

\* axis triples: (2.0, -4.0, 0.0) and (-2.0, 2.0, 4.0)
AxisTriples ==
    { <<2 * FloatOne, -4 * FloatOne, 0>>,
      <<-2 * FloatOne, 2 * FloatOne, 4 * FloatOne>> }

\* the numbers the display code multiplies and divides by
Scalars == {2, -1}

\* two Measurements: one as receive makes it, with the peer as source, one
\* made without a source
InitSample ==
    /\ InitReceiver
    /\ \E a \in AxisTriples, b \in AxisTriples :
         heap = << Measurement(1000000, a[1], a[2], a[3], "192.0.2.1"),
                   Measurement(2500000, b[1], b[2], b[3], NoneVal) >>
    /\ res = [op |-> "start"]

\* the operation op on self and other is done, with the result r
Apply(op, self, other, r) ==
    /\ Len(heap) < MaxSamples
    /\ heap' = r.heap
    /\ res' = [op |-> op, self |-> self, other |-> other, out |-> r.out]
    /\ UNCHANGED receiverVars

\* a + b, a - b with a Measurement or a number as b
Add ==
    \E i \in DOMAIN heap :
      \E o \in {Obj(j) : j \in DOMAIN heap} \cup {Num(2)} :
        Apply("add", i, o, __add__(heap, i, o))

Sub ==
    \E i \in DOMAIN heap :
      \E o \in {Obj(j) : j \in DOMAIN heap} \cup {Num(2)} :
        Apply("sub", i, o, __sub__(heap, i, o))

\* a * n, a / n
Mul ==
    \E i \in DOMAIN heap, n \in Scalars :
      Apply("mul", i, Num(n), __mul__(heap, i, n))

Div ==
    \E i \in DOMAIN heap, n \in Scalars \cup {0} :
      Apply("div", i, Num(n), __div__(heap, i, n))

\* -a, +a, abs(a), ~a
Neg == \E i \in DOMAIN heap : Apply("neg", i, Num(0), __neg__(heap, i))

Pos == \E i \in DOMAIN heap : Apply("pos", i, Num(0), __pos__(heap, i))

AbsOp == \E i \in DOMAIN heap : Apply("abs", i, Num(0), __abs__(heap, i))

Invert ==
    \E i \in DOMAIN heap : Apply("invert", i, Num(0), __invert__(heap, i))

\* a.clone(x, y, z)
Clone ==
    \E i \in DOMAIN heap, t \in AxisTriples :
      Apply("clone", i, Num(0), clone(heap, i, t[1], t[2], t[3]))

NextSample ==
    \/ Add
    \/ Sub
    \/ Mul
    \/ Div
    \/ Neg
    \/ Pos
    \/ AbsOp
    \/ Invert
    \/ Clone

SpecSample == InitSample /\ [][NextSample]_vars

---------------------------------------------------------------------------
(* Vocabulary of the properties *)

\* the header fields and the body length of a datagram of at least 4 bytes
DeclaredType(d) == d[1] * 256 + d[2]
DeclaredSize(d) == d[3] * 256 + d[4]
BodyLen(d) == Len(d) - 4

\* a difference of two floats, in microseconds
Micros(diff) == (diff * 1000000) \div FloatOne

\* the step is a receive() call
ReceiveStep == calls' = calls + 1

\* receive() decodes the datagram as a measurement: its type is 2 and both
\* unpack_wrapper and unpack_measurement accept it
Decoded(d) == RelTime(d) # NoneVal

---------------------------------------------------------------------------
(* C1 - C3: framing *)

\* C1: a datagram of type 2 whose declared size equals the length of the
\* 28-byte body after the header is decoded by receive on a fresh receiver
\* into a Measurement with the encoded x, y, z and the peer's address.
C1_BodySizedMeasurementDecodes ==
    (/\ calls = 1
     /\ Len(data) >= 4
     /\ DeclaredType(data) = msgtype_measurement
     /\ BodyLen(data) = 28
     /\ DeclaredSize(data) = BodyLen(data))
    => /\ ret.kind = "Measurement"
       /\ ret.x = SubSeq(data, 9, 16)
       /\ ret.y = SubSeq(data, 17, 24)
       /\ ret.z = SubSeq(data, 25, 32)
       /\ ret.source = addr

\* C2: unpack_wrapper raises PartialData for every datagram of at least 4
\* bytes whose declared size differs from the length of its body.
C2_SizeMismatchIsPartialData ==
    (/\ calls > 0
     /\ Len(data) >= 4
     /\ DeclaredSize(data) # BodyLen(data))
    => /\ unpack_wrapper(data).kind = "PartialData"
       /\ ret.kind = "PartialData"

\* C3: a PartialData raised by unpack_wrapper carries the number of body
\* bytes present as num_got and the declared size as num_want.
C3_PartialDataFields ==
    (calls > 0 /\ ret.kind = "PartialData")
    => /\ ret.num_got = BodyLen(data)
       /\ ret.num_want = DeclaredSize(data)

---------------------------------------------------------------------------
(* C4 - C6: the clock anchor *)

\* C4: the timestamp of every returned Measurement is
\* anchor_wallclock + (sensor_time - anchor_sensor_time), whatever the sign
\* of the difference and whether or not it is a whole number of seconds.
C4_TimestampIsAnchorPlusDifference ==
    (calls > 0 /\ ret.kind = "Measurement")
    => ret.timestamp = _first[1] + Micros(RelTime(data)[1] - _first[2])

\* C5: _first is set by the first decoded measurement, to the wall clock of
\* that call and the measurement's relative time, by no other step, and is
\* never changed once set.
C5_AnchorSetOnce ==
    [][/\ _first # NoneVal => _first' = _first
       /\ (_first = NoneVal /\ _first' # NoneVal)
            => /\ ReceiveStep
               /\ Decoded(data')
               /\ _first' = <<now, RelTime(data')[1]>>
       /\ (ReceiveStep /\ Decoded(data')) => _first' # NoneVal]_vars

\* the anchor was set at an earlier wall-clock time and a later call, which
\* did not return a Measurement, has been made
C5_Witness ==
    /\ _first # NoneVal
    /\ calls >= 2
    /\ now > _first[1]
    /\ ret.kind # "Measurement"

\* C6: a sample whose relative time is T0 + d, d >= 0, with (W0, T0) the
\* first sample's wall clock and relative time, gets the timestamp W0 + d,
\* whatever the wall clock is when it is processed.
C6_LaterSampleIsAnchorPlusD ==
    (/\ calls > 0
     /\ ret.kind = "Measurement"
     /\ RelTime(data)[1] >= _first[2])
    => ret.timestamp = _first[1] + Micros(RelTime(data)[1] - _first[2])

\* the third call returns the sample 5.0 s after the anchor's relative
\* time, processed when the wall clock has moved on
C6_Witness ==
    /\ calls = 3
    /\ ret.kind = "Measurement"
    /\ RelTime(data)[1] - _first[2] = 5 * FloatOne
    /\ now > _first[1]
    /\ ret.timestamp = _first[1] + 5000000

---------------------------------------------------------------------------
(* C7 - C10: the backward-drop filter *)

\* C7: with drop_on_backward enabled, a measurement whose computed
\* timestamp is earlier than _prev_dt makes receive return None and leaves
\* _prev_dt and _first as they were.
C7_SuppressedLeavesState ==
    [][(/\ ReceiveStep
        /\ drop_on_backward
        /\ Decoded(data')
        /\ _prev_dt # NoneVal
        /\ compensate_time(_first, now, RelTime(data')[1]).dt < _prev_dt[1])
       => /\ ret' = ReturnNone
          /\ _prev_dt' = _prev_dt
          /\ _first' = _first]_vars

\* a decoded measurement has been suppressed
C7_Witness ==
    /\ drop_on_backward
    /\ calls >= 2
    /\ Decoded(data)
    /\ ret = ReturnNone
    /\ _prev_dt # NoneVal

\* C8: after every call that returns a Measurement, _prev_dt is that
\* Measurement's timestamp, with drop_on_backward enabled or disabled.
C8_AcceptedUpdatesPrevDt ==
    (calls > 0 /\ ret.kind = "Measurement")
    => _prev_dt = <<ret.timestamp>>

\* C9: while every call so far delivered a decodable measurement with a
\* relative time greater than the one before it, drop_on_backward enabled,
\* every call returns a Measurement and _prev_dt never decreases.
C9_IncreasingAllAccepted ==
    [][(ReceiveStep /\ increasing')
       => /\ ret'.kind = "Measurement"
          /\ _prev_dt' = <<ret'.timestamp>>
          /\ _prev_dt # NoneVal => _prev_dt'[1] >= _prev_dt[1]]_vars

\* three measurements with increasing relative times have been accepted
C9_Witness ==
    /\ increasing
    /\ calls = 3
    /\ ret.kind = "Measurement"
    /\ _prev_dt = <<ret.timestamp>>
    /\ ret.timestamp > _first[1]

\* C10: with drop_on_backward disabled, every decodable measurement
\* datagram is returned as a Measurement by the call that received it.
C10_DisabledAcceptsAll ==
    [][(ReceiveStep /\ ~drop_on_backward /\ Decoded(data'))
       => /\ ret'.kind = "Measurement"
          /\ ret'.timestamp =
               compensate_time(_first, now, RelTime(data')[1]).dt
          /\ ret'.x = SubSeq(data', 9, 16)
          /\ ret'.source = addr']_vars

\* with the filter disabled, a Measurement older than the last one the
\* filter accepted has been returned
C10_Witness ==
    /\ ~drop_on_backward
    /\ ret.kind = "Measurement"
    /\ _prev_dt # NoneVal
    /\ ret.timestamp < _prev_dt[1]

---------------------------------------------------------------------------
(* C11 - C15: errors *)

\* the exceptions of the wire codec
FramingErrors == {"PartialData", "struct.error", "ValueError"}

\* C11: a datagram whose type is neither Measurement nor Announce makes
\* receive raise an error: the outcome is not the None of a suppressed
\* sample, and measurements() does not go round its loop past it.
C11_UnknownTypeIsUnsupported ==
    (/\ calls > 0
     /\ unpack_wrapper(data).kind = "ok"
     /\ unpack_wrapper(data).typ \notin
          {msgtype_measurement, msgtype_announce})
    => /\ ret.kind \notin {"None", "Measurement"}
       /\ gen # "running"

\* C12: an error raised to the consumer of measurements() does not end the
\* sequence: a later next() never finds the generator finished.
C12_ErrorDoesNotEndSequence ==
    pulled.kind # "StopIteration"

\* C13: an Announce makes receive raise NotImplementedError and leaves
\* _first and _prev_dt unchanged, so that every measurement datagram
\* arriving next has the outcome it would have had without the Announce.
C13_AnnounceLeavesState ==
    [][(/\ ReceiveStep
        /\ unpack_wrapper(data').kind = "ok"
        /\ unpack_wrapper(data').typ = msgtype_announce)
       => /\ ret'.kind = "NotImplementedError"
          /\ _first' = _first
          /\ _prev_dt' = _prev_dt
          /\ \A d \in Datagrams, a \in Peers :
               Decoded(d) =>
                 receive(_first', _prev_dt', drop_on_backward', now', d, a)
                 = receive(_first, _prev_dt, drop_on_backward, now, d, a)]_vars

\* an Announce has been received by a receiver whose anchor and ordering
\* state were set
C13_Witness ==
    /\ ret.kind = "NotImplementedError"
    /\ _first # NoneVal
    /\ _prev_dt # NoneVal
    /\ old_prev_dt = _prev_dt

\* C14: a call that ends in an exception of the wire codec leaves _first
\* and _prev_dt as they were; a malformed datagram that comes first does
\* not set the anchor.
C14_FramingErrorLeavesState ==
    [][(ReceiveStep /\ ret'.kind \in FramingErrors)
       => /\ _first' = _first
          /\ _prev_dt' = _prev_dt]_vars

\* a measurement with surplus bytes was the first datagram to pass
\* unpack_wrapper, and no anchor is set
C14_Witness ==
    /\ calls > 0
    /\ ret.kind = "ValueError"
    /\ _first = NoneVal
    /\ _prev_dt = NoneVal

\* C15: unpack_measurement returns the tuple for a body of 28 bytes, raises
\* the excess-data error for a longer one and PartialData, the error of a
\* header/body mismatch, for a shorter one.
C15_OutcomeByBodyLength ==
    (calls > 0 /\ unpack_wrapper(data).kind = "ok")
    => LET body == unpack_wrapper(data).rest
           r == unpack_measurement(body)
       IN  /\ Len(body) = measurement_size => r.kind = "ok"
           /\ Len(body) > measurement_size => r.kind = "ValueError"
           /\ Len(body) < measurement_size => r.kind = "PartialData"

---------------------------------------------------------------------------
(* C17 - C19: the generator and the ordering of the returned samples *)

\* C17: measurements() never yields None: a None returned by receive keeps
\* the generator in the same next(), waiting for the next datagram, and a
\* Measurement returned by receive is what that next() yields.
C17_GeneratorSkipsNone ==
    /\ [](pulled.kind # "None")
    /\ [][(gen = "running" /\ ReceiveStep)
          => /\ ret' = ReturnNone
                  => gen' = "running" /\ pulled' = pulled
             /\ ret'.kind = "Measurement"
                  => gen' = "suspended" /\ pulled' = ret']_vars

\* the generator has received a measurement that the filter suppressed and
\* is still in the same next()
C17_Witness ==
    /\ gen = "running"
    /\ pull_calls >= 1
    /\ Decoded(data)
    /\ ret = ReturnNone
    /\ pulled.kind = "pending"

\* C18: with drop_on_backward enabled, a decoded measurement is suppressed
\* exactly when its timestamp is less than _prev_dt; one whose timestamp
\* equals _prev_dt is returned.
C18_DropOnlyStrictlyEarlier ==
    [][(/\ ReceiveStep
        /\ drop_on_backward
        /\ Decoded(data')
        /\ _prev_dt # NoneVal)
       => LET dt == compensate_time(_first, now, RelTime(data')[1]).dt IN
          /\ ret' = ReturnNone <=> dt < _prev_dt[1]
          /\ dt = _prev_dt[1]
               => ret'.kind = "Measurement" /\ ret'.timestamp = dt]_vars

\* with the flag enabled all along, a Measurement whose timestamp is the
\* _prev_dt of before the call has been returned
C18_Witness ==
    /\ ~ever_off
    /\ calls >= 2
    /\ ret.kind = "Measurement"
    /\ old_prev_dt = <<ret.timestamp>>

\* C19: while drop_on_backward has never been disabled, no returned
\* Measurement is earlier than one returned before it, and _prev_dt is the
\* greatest timestamp returned so far (None when nothing was returned).
C19_ReturnedNonDecreasing ==
    /\ [](~ever_off => _prev_dt = max_ret)
    /\ [][(/\ ReceiveStep
           /\ ~ever_off
           /\ ret'.kind = "Measurement"
           /\ max_ret # NoneVal)
          => ret'.timestamp >= max_ret[1]]_vars

\* with the flag enabled all along, two Measurements were returned and a
\* third, older one was suppressed
C19_Witness ==
    /\ ~ever_off
    /\ calls = 3
    /\ Decoded(data)
    /\ ret = ReturnNone
    /\ _prev_dt = max_ret
    /\ max_ret[1] > _first[1]

---------------------------------------------------------------------------
(* C16: Measurement arithmetic *)

\* the operation just done has operands it applies to: a Measurement for
\* + and -, a non-zero number for /, and it is not ~
Applicable(r) ==
    /\ r.op \in {"add", "sub"} => r.other.kind = "Measurement"
    /\ r.op = "div" => r.other.n # 0
    /\ r.op # "invert"

\* C16: add, subtract, multiply, divide, negate, unary plus, abs and clone
\* return a new object with the timestamp and the source of the left
\* operand, and leave every object there was, the operands among them,
\* unchanged.
C16_DerivedSamplePreserves ==
    [][(Applicable(res') /\ sampleVars' # sampleVars)
       => /\ res'.out = <<Len(heap) + 1>>
          /\ Len(heap') = Len(heap) + 1
          /\ heap'[Len(heap) + 1].timestamp = heap[res'.self].timestamp
          /\ heap'[Len(heap) + 1].source = heap[res'.self].source
          /\ \A i \in DOMAIN heap : heap'[i] = heap[i]]_vars

\* a Measurement derived from a derived one: the quotient of object 3,
\* itself the sum of object 1 and another, carries object 1's timestamp and
\* source
C16_Witness ==
    /\ Len(heap) = 4
    /\ res.op = "div"
    /\ res.self = 3
    /\ res.out = <<4>>
    /\ heap[4].timestamp = heap[1].timestamp
    /\ heap[4].source = "192.0.2.1"
    /\ heap[4].x # heap[3].x
    /\ heap[3].x = heap[1].x + heap[2].x

===========================================================================
